---- MODULE Spec2Model ----
(***************************************************************************)
(* A model of td_gui.py: the command catalog, the selection engine of      *)
(* TdGuiApp (toggle, mutual exclusion, editor rows), the argument builder, *)
(* the preference store (load, save, restore) and the route parser.        *)
(*                                                                         *)
(* Text is a sequence of one-character strings, so that strip, split and   *)
(* the regular expression of the parser are computed character by          *)
(* character.  A Python value that may be None or absent is a sequence of  *)
(* length 0 (absent) or 1 (the value).                                     *)
(***************************************************************************)
EXTENDS Integers, Sequences, FiniteSets, TLC

VARIABLES
    pc,       \* position of the session: inside TdGuiApp.__init__, ready, closed
    app,      \* the fields of the TdGuiApp object
    disk,     \* the preference file td_gui_prefs.json
    hist,     \* history of the session, read only by the properties
    parts,    \* the last argument vector built (BuildSpec)
    text,     \* the input of the route parser (ParseSpec)
    routes,   \* the result of the route parser (ParseSpec)
    procs,    \* the reader threads of _run and their processes (RunSpec)
    events    \* the callbacks scheduled on the main loop (RunSpec)

vars == <<pc, app, disk, hist, parts, text, routes, procs, events>>

-----------------------------------------------------------------------------
(* Bounds of the model.                                                    *)

MaxOps == 4        \* most operations of the user and the process in a behaviour
MaxSessions == 2   \* most sessions (starts of the program) in a behaviour
MaxLines == 3      \* most lines of a parsed text
RunIds == {1, 2}   \* the clicks on Run of a behaviour (RunSpec)
MaxEmit == 2       \* most lines a process prints (RunSpec)

-----------------------------------------------------------------------------
(* Python values.                                                          *)

None == <<>>
Some(v) == <<v>>
IsSome(o) == o # <<>>
Get(o, dflt) == IF o # <<>> THEN o[1] ELSE dflt

Max(a, b) == IF a < b THEN b ELSE a

RECURSIVE Flatten(_)
Flatten(ss) == IF ss = <<>> THEN <<>> ELSE Head(ss) \o Flatten(Tail(ss))

Rep(tok, n) == [i \in 1..Max(n, 0) |-> tok]

(* str.strip(): whitespace removed from both ends. *)
IsSpace(c) == c \in {" ", "\n", "\t"}

RECURSIVE LStrip(_)
LStrip(s) == IF s # <<>> /\ IsSpace(Head(s)) THEN LStrip(Tail(s)) ELSE s

RECURSIVE RStrip(_)
RStrip(s) ==
    IF s # <<>> /\ IsSpace(s[Len(s)]) THEN RStrip(SubSeq(s, 1, Len(s) - 1)) ELSE s

Strip(s) == RStrip(LStrip(s))

(* str.split(sep) for a one-character separator: scan left to right. *)
RECURSIVE SplitFrom(_, _, _)
SplitFrom(s, sep, cur) ==
    IF s = <<>> THEN <<cur>>
    ELSE IF Head(s) = sep THEN <<cur>> \o SplitFrom(Tail(s), sep, <<>>)
    ELSE SplitFrom(Tail(s), sep, Append(cur, Head(s)))

Split(s, sep) == SplitFrom(s, sep, <<>>)

Contains(s, c) == \E i \in 1..Len(s) : s[i] = c

(* sep.join(list) *)
RECURSIVE Join(_, _)
Join(ss, sep) ==
    IF ss = <<>> THEN <<>>
    ELSE IF Len(ss) = 1 THEN ss[1]
    ELSE ss[1] \o sep \o Join(Tail(ss), sep)

-----------------------------------------------------------------------------
(* OptionSpec and CommandMeta.  An argument name such as "--from" is kept  *)
(* with the number of its leading dashes and the rest of it, which is all  *)
(* that startswith("-"), startswith("--") and lstrip("-") read.            *)

Dashes == <<"-", "--">>
Arg(d, b) == [dashes |-> d, bare |-> b,
              text |-> IF d = 0 THEN b ELSE Dashes[d] \o b]

OptionSpec(args, dest, action, dflt, gid) ==
    [args |-> args, dest |-> dest, action |-> action,
     default |-> dflt, group_id |-> gid]

(* OptionSpec.long_flag: the first name starting with "--", else the first. *)
long_flag(spec) ==
    LET longs == SelectSeq(spec.args, LAMBDA a : a.dashes >= 2)
    IN  IF longs # <<>> THEN longs[1] ELSE spec.args[1]

display_name(spec) == long_flag(spec)
is_flag(spec) == spec.action = Some("store_true")
multiple(spec) == spec.action = Some("append")
is_positional(spec) == spec.args[1].dashes = 0

(* OptionSpec.key: dest, else the first declared name. *)
key(spec) == IF IsSome(spec.dest) /\ spec.dest[1] # "" THEN spec.dest[1]
             ELSE spec.args[1].text

CommandMeta(name, arguments, switches, fixed_args) ==
    [name |-> name, arguments |-> arguments, switches |-> switches,
     fixed_args |-> fixed_args]

(* The registry tradedangerous.commands is outside this repository: the    *)
(* model takes a registry of one command, "run", with a positional, the    *)
(* valued switch --from (dest "starting") with the default False, and a    *)
(* mutually exclusive group                                                *)
(* of the flag --direct and the append switch --avoid, which has a         *)
(* default.  The switches are declared in an order that is not the order   *)
(* of the special layout of "run".                                         *)
GroupOfRun == 1
PyFalse == <<"False">>     \* the default False, which is no text

ItemSpec == OptionSpec(<<Arg(0, "item")>>, None, None, None, None)
AvoidSpec == OptionSpec(<<Arg(2, "avoid")>>, Some("avoid"), Some("append"),
                        Some(<<"5">>), Some(GroupOfRun))
DirectSpec == OptionSpec(<<Arg(1, "d"), Arg(2, "direct")>>, None,
                         Some("store_true"), None, Some(GroupOfRun))
FromSpec == OptionSpec(<<Arg(2, "from"), Arg(1, "f")>>, Some("starting"),
                       None, Some(PyFalse), None)

(* load_commands(): one CommandMeta per registry entry, plus the injected  *)
(* "Update/Rebuild DB" with fixed arguments.                               *)
FixedImport == <<"import", "-P", "eddblink", "-O", "clean,all,skipvend,force">>

load_commands ==
    [l \in {"Update/Rebuild DB", "run"} |->
        IF l = "run"
        THEN CommandMeta("run", <<ItemSpec>>,
                         <<AvoidSpec, DirectSpec, FromSpec>>, None)
        ELSE CommandMeta("import", <<>>, <<>>, Some(FixedImport))]

cmd_metas == load_commands

(* sorted(self.cmd_metas): an upper-case letter sorts before lower case. *)
all_cmds == <<"Update/Rebuild DB", "run">>

NoMeta == ""     \* current_meta is None

-----------------------------------------------------------------------------
(* The route parser: TdGuiApp._strip_ansi and TdGuiApp._parse_routes.      *)

ESC == "ESC"     \* the character \x1b
IsSgr(c) == c \in {"0", "1", "2", "3", "4", "5", "6", "7", "8", "9", ";"}

(* Length of the longest run of characters satisfying the test from i on. *)
RECURSIVE SgrRun(_, _)
SgrRun(s, i) == IF i <= Len(s) /\ IsSgr(s[i]) THEN 1 + SgrRun(s, i + 1) ELSE 0

RECURSIVE WsRun(_, _)
WsRun(s, i) == IF i <= Len(s) /\ IsSpace(s[i]) THEN 1 + WsRun(s, i + 1) ELSE 0

(* re.sub of ESC "[" digits-and-semicolons "m" by "": leftmost matches. *)
RECURSIVE StripAnsiFrom(_, _)
StripAnsiFrom(s, i) ==
    IF i > Len(s) THEN <<>>
    ELSE IF s[i] = ESC /\ i + 1 <= Len(s) /\ s[i + 1] = "["
            /\ i + 2 + SgrRun(s, i + 2) <= Len(s)
            /\ s[i + 2 + SgrRun(s, i + 2)] = "m"
         THEN StripAnsiFrom(s, i + 3 + SgrRun(s, i + 2))
         ELSE <<s[i]>> \o StripAnsiFrom(s, i + 1)

strip_ansi(s) == StripAnsiFrom(s, 1)

(* str.splitlines(): split at line ends, no empty line after a final one. *)
splitlines(s) ==
    LET ps == Split(s, "\n")
    IN  IF ps[Len(ps)] = <<>> THEN SubSeq(ps, 1, Len(ps) - 1) ELSE ps

(* start_pat: optional whitespace, group 1 (lazy, one character or more), *)
(* optional whitespace, "->", optional whitespace, group 2 (lazy, one      *)
(* character or more), optionally whitespace and "(score:" and anything,   *)
(* optional whitespace, end of line.                                       *)
(* An arrow can be the one of the pattern when a character precedes it     *)
(* (group 1 is not empty) and a character follows it (group 2 is not).     *)
IsArrowAt(ln, i) == i >= 1 /\ i + 1 <= Len(ln) /\ ln[i] = "-" /\ ln[i + 1] = ">"
ArrowOk(ln, i) == IsArrowAt(ln, i) /\ i >= 2 /\ i + 2 <= Len(ln)

start_pat_match(ln) == \E i \in 1..Len(ln) : ArrowOk(ln, i)

(* The arrow the match takes.  Leading whitespace is greedy, group 1 lazy: *)
(* the first arrow that leaves group 1 a character after all the leading   *)
(* whitespace; failing that, the arrow right after the leading whitespace, *)
(* with group 1 taking the last whitespace character.                      *)
MinOf(S) == CHOOSE i \in S : \A j \in S : i <= j

FirstArrow(late, K) == IF late # {} THEN MinOf(late) ELSE K + 1

ArrowFrom(ln, K) == FirstArrow({i \in (K + 2)..Len(ln) : ArrowOk(ln, i)}, K)

ArrowIdx(ln) == ArrowFrom(ln, WsRun(ln, 1))

ScoreWord == <<"(", "s", "c", "o", "r", "e", ":">>
StartsWith(s, p) == Len(s) >= Len(p) /\ SubSeq(s, 1, Len(p)) = p

(* The end of the pattern matches t: an optional score part, whitespace. *)
ScoreOrEnd(u) == u = <<>> \/ StartsWith(u, ScoreWord)
TailOk(t) == ScoreOrEnd(LStrip(t))

(* group(2): after greedy whitespace, the shortest text the end accepts;   *)
(* R is the line after the arrow, B is R after its leading whitespace.     *)
Shortest(R, B) ==
    IF B = <<>> THEN <<R[Len(R)]>>
    ELSE SubSeq(B, 1, MinOf({n \in 1..Len(B) : TailOk(SubSeq(B, n + 1, Len(B)))}))

AfterArrow(R) == Shortest(R, SubSeq(R, WsRun(R, 1) + 1, Len(R)))

Group2(ln) == AfterArrow(SubSeq(ln, ArrowIdx(ln) + 2, Len(ln)))

(* m.group(2) taken to the end of the line. *)
dest_with_score(first) ==
    IF start_pat_match(first)
    THEN Strip(SubSeq(first, ArrowIdx(first) + 2, Len(first))) ELSE <<>>

dest_of(first) == IF start_pat_match(first) THEN Strip(Group2(first)) ELSE <<>>

(* Closing the current block: lines 715-722 and 729-734. *)
EmitBlock(rs, block, first) ==
    IF block # <<>> THEN Append(rs, [block |-> block, dest |-> dest_of(first)])
    ELSE rs

(* Lines 716 and 730 without the strip of the block. *)
close_block_unstripped(rs, current) ==
    IF current = <<>> THEN rs
    ELSE EmitBlock(rs, Join(current, <<"\n">>), current[1])

CloseBlock(rs, current) ==
    IF current = <<>> THEN rs
    ELSE EmitBlock(rs, Strip(Join(current, <<"\n">>)), current[1])

(* Lines 714-723: a start line closes the block being accumulated. *)
StartLine(st, ln) ==
    IF start_pat_match(ln) /\ st.current # <<>>
    THEN [routes |-> CloseBlock(st.routes, st.current), current |-> <<>>]
    ELSE st

(* Lines 724-728: a blank line is kept only inside a block. *)
AddLine(st, ln) ==
    IF Strip(ln) = <<>> /\ st.current = <<>> THEN st
    ELSE [st EXCEPT !.current = Append(@, ln)]

(* The loop over the lines: st is [routes, current]. *)
RECURSIVE ParseLines(_, _)
ParseLines(lines, st) ==
    IF lines = <<>> THEN st
    ELSE ParseLines(Tail(lines), AddLine(StartLine(st, Head(lines)), Head(lines)))

LastBlock(st) == CloseBlock(st.routes, st.current)

parse_routes(txt) ==
    LastBlock(ParseLines(splitlines(strip_ansi(txt)),
                         [routes |-> <<>>, current |-> <<>>]))

-----------------------------------------------------------------------------
(* The catalog as the methods of TdGuiApp read it.                         *)

SeqToSet(q) == {q[i] : i \in 1..Len(q)}

AllSpecs(meta) == meta.arguments \o meta.switches

KeyIndex(q) ==
    [k \in {key(q[i]) : i \in 1..Len(q)} |->
        q[CHOOSE i \in 1..Len(q) : key(q[i]) = k]]

SpecTable == [l \in DOMAIN cmd_metas |-> KeyIndex(AllSpecs(cmd_metas[l]))]

SpecByKey(label, k) == SpecTable[label][k]

(* spec in self.current_meta.arguments *)
RequiredTable ==
    [l \in DOMAIN cmd_metas |-> DOMAIN KeyIndex(cmd_metas[l].arguments)]

is_required(label, k) == k \in RequiredTable[label]

(* The sections of the special layout of 'run', lines 1521-1529, in order. *)
RunSects ==
    <<"capacity", "credits",
      "starting", "ending", "via", "limit", "blackMarket", "unique",
      "pruneScores", "shorten", "routes", "maxRoutes", "pruneHops",
      "goalSystem", "loop", "direct", "hops", "maxJumpsPer", "maxLyPer",
      "emptyLyPer", "startJumps", "endJumps", "showJumps", "supply", "demand",
      "avoid", "maxAge", "lsPenalty", "demand", "supply",
      "padSize", "noPlanet", "planetary", "fleet", "odyssey", "maxLs",
      "minGainPerTon", "maxGainPerTon", "margin", "insurance",
      "checklist", "x52pro", "progress", "summary">>

(* by_dest of lines 1515-1520: by_dest[key1] = s; by_dest.setdefault(key2, s) *)
SetDefault(d, k, v) == IF k \in DOMAIN d THEN d ELSE (k :> v) @@ d
DestKey(sp, key2) == IF IsSome(sp.dest) /\ sp.dest[1] # "" THEN sp.dest[1] ELSE key2
PutByDest(d, sp, key2) == SetDefault((DestKey(sp, key2) :> sp) @@ d, key2, sp)

RECURSIVE ByDest(_, _)
ByDest(specs, d) ==
    IF specs = <<>> THEN d
    ELSE ByDest(Tail(specs), PutByDest(d, Head(specs), long_flag(Head(specs)).bare))

(* The loop of lines 1532-1540: the specs the sections name, none twice. *)
RECURSIVE SectSpecs(_, _, _)
SectSpecs(names, d, used) ==
    IF names = <<>> THEN <<>>
    ELSE IF Head(names) \in DOMAIN d /\ d[Head(names)] \notin used
    THEN <<d[Head(names)]>>
         \o SectSpecs(Tail(names), d, used \cup {d[Head(names)]})
    ELSE SectSpecs(Tail(names), d, used)

(* _categorize_current, flattened: the specs in the order of the layout. *)
NamedFirst(all, named) ==
    named \o SelectSeq(all, LAMBDA sp : sp \notin SeqToSet(named))

Layout(meta, all) ==
    IF meta.name = "run"
    THEN NamedFirst(all, SectSpecs(RunSects, ByDest(all, <<>>), {}))
    ELSE all

categorize(label) == Layout(cmd_metas[label], AllSpecs(cmd_metas[label]))

KeysOf(q) == [i \in 1..Len(q) |-> key(q[i])]

CategorizeTable == [l \in DOMAIN cmd_metas |-> KeysOf(categorize(l))]

categorize_keys(label) == CategorizeTable[label]

-----------------------------------------------------------------------------
(* The argument builder: TdGuiApp._build_args.  A token of the vector is   *)
(* a word of the program (a command name, a flag) or a text the user gave. *)

W(word) == [k |-> "word", word |-> word, s |-> <<>>]
V(chars) == [k |-> "text", word |-> "", s |-> chars]

(* An editor row of self._selected: {"flag": BooleanVar} or {"value": StringVar} *)
FlagRow(k, b) == [key |-> k, flag |-> Some(b), value |-> None]
ValueRow(k, v) == [key |-> k, flag |-> None, value |-> Some(v)]

(* Lines 574-578 with the name put before the fixed arguments. *)
name_then_fixed(meta) ==
    <<W(meta.name)>>
    \o (IF IsSome(meta.fixed_args)
        THEN [i \in 1..Len(meta.fixed_args[1]) |-> W(meta.fixed_args[1][i])]
        ELSE <<>>)

(* Lines 574-578. *)
HeadTokens(meta) ==
    IF IsSome(meta.fixed_args) /\ meta.fixed_args[1] # <<>>
    THEN [i \in 1..Len(meta.fixed_args[1]) |-> W(meta.fixed_args[1][i])]
    ELSE <<W(meta.name)>>

StripAll(ps) == [i \in 1..Len(ps) |-> Strip(ps[i])]

(* Lines 593-594 without the test of x.strip(). *)
pieces_with_empty(val) == StripAll(Split(val, ","))

(* Lines 593-594: the pieces of a comma-separated value. *)
Pieces(val) == SelectSeq(StripAll(Split(val, ",")), LAMBDA x : x # <<>>)

(* Lines 595-596: the flag before each piece. *)
Pairs(flagTok, ps) == Flatten([i \in 1..Len(ps) |-> <<flagTok, V(ps[i])>>])

(* Lines 586-596 without the test of line 587. *)
value_tokens_of_blank(spec, flagTok, val) ==
    IF is_positional(spec) THEN <<V(val)>>
    ELSE IF multiple(spec) /\ Contains(val, ",") THEN Pairs(flagTok, Pieces(val))
    ELSE <<flagTok, V(val)>>

(* Lines 586-596: a row with a value, val being the value stripped. *)
ValueTokens(spec, flagTok, val) ==
    IF val = <<>> THEN <<>>
    ELSE IF is_positional(spec) THEN <<V(val)>>
    ELSE IF multiple(spec) /\ Contains(val, ",") THEN Pairs(flagTok, Pieces(val))
    ELSE <<flagTok, V(val)>>

(* Lines 582-585: a flag row adds its name when it is checked. *)
RowTokens(spec, flagTok, row) ==
    IF is_flag(spec)
    THEN IF row.flag[1] THEN <<flagTok>> ELSE <<>>
    ELSE ValueTokens(spec, flagTok, Strip(row.value[1]))

FlagToken(spec) == W(display_name(spec).text)

(* Lines 580-596: what one selected row adds to the vector. *)
OptionTokens(label, row) ==
    RowTokens(SpecByKey(label, row.key), FlagToken(SpecByKey(label, row.key)), row)

(* Lines 598-611 with the counters before the paths. *)
globals_counters_first(a) ==
    Rep(W("-v"), a.detail_var)
    \o Rep(W("-q"), a.quiet_var)
    \o Rep(W("-w"), a.debug_var)
    \o (IF Strip(a.cwd_var) # <<>> THEN <<W("-C"), V(Strip(a.cwd_var))>> ELSE <<>>)
    \o (IF Strip(a.db_var) # <<>> THEN <<W("--db"), V(Strip(a.db_var))>> ELSE <<>>)
    \o (IF Strip(a.linkly_var) # <<>> THEN <<W("-L"), V(Strip(a.linkly_var))>>
        ELSE <<>>)

(* Lines 598-611. *)
GlobalTokens(a) ==
    (IF Strip(a.cwd_var) # <<>> THEN <<W("-C"), V(Strip(a.cwd_var))>> ELSE <<>>)
    \o (IF Strip(a.db_var) # <<>> THEN <<W("--db"), V(Strip(a.db_var))>> ELSE <<>>)
    \o (IF Strip(a.linkly_var) # <<>> THEN <<W("-L"), V(Strip(a.linkly_var))>>
        ELSE <<>>)
    \o Rep(W("-v"), a.detail_var)
    \o Rep(W("-q"), a.quiet_var)
    \o Rep(W("-w"), a.debug_var)

build_args(a) ==
    IF a.current_meta = NoMeta THEN <<>>
    ELSE HeadTokens(cmd_metas[a.current_meta])
         \o Flatten([i \in 1..Len(a.selected) |->
                        OptionTokens(a.current_meta, a.selected[i])])
         \o GlobalTokens(a)

-----------------------------------------------------------------------------
(* The preference document: the JSON object of td_gui_prefs.json and of    *)
(* self._prefs.  A key that is absent is None.                             *)

EmptyRec == [selected |-> None, flag |-> None, value |-> None]
EmptyCmdState == [options |-> <<>>, output |-> None]
EmptyDoc ==
    [cwd |-> None, db |-> None, linkly |-> None,
     detail |-> None, quiet |-> None, debug |-> None,
     selected_command |-> None, commands |-> <<>>]

(* The file: missing, not JSON, a JSON value that is no object, or a document. *)
File(kind, doc) == [kind |-> kind, doc |-> doc]
MissingFile == File("missing", EmptyDoc)
DocOf(f) == IF f.kind = "doc" THEN f.doc ELSE EmptyDoc

CmdStateOf(doc, label) ==
    IF label \in DOMAIN doc.commands THEN doc.commands[label] ELSE EmptyCmdState
RecOf(doc, label, k) ==
    LET o == CmdStateOf(doc, label).options
    IN  IF k \in DOMAIN o THEN Some(o[k]) ELSE None

(* Text.get("1.0", tk.END): the content and the newline Tk ends every text with. *)
TextGet(content) == content \o <<"\n">>

RowOf(w, k) ==
    LET rs == SelectSeq(w.selected, LAMBDA r : r.key = k)
    IN  IF rs = <<>> THEN None ELSE Some(rs[1])

IsSelected(w, k) == k \in DOMAIN w.widget_vars /\ w.widget_vars[k]
RowFlag(wd) == IF IsSome(wd) /\ IsSome(wd[1].flag) THEN wd[1].flag[1] ELSE FALSE
RowValue(wd) == IF IsSome(wd) /\ IsSome(wd[1].value) THEN wd[1].value[1] ELSE <<>>

(* Lines 1141-1153 and 1245-1257: the record of one spec, from the widgets. *)
RecFromWidgets(w, old, k) ==
    IF is_flag(SpecByKey(w.current_meta, k))
    THEN [old EXCEPT !.selected = Some(IsSelected(w, k)),
                     !.flag = Some(RowFlag(RowOf(w, k)))]
    ELSE [old EXCEPT !.selected = Some(IsSelected(w, k)),
                     !.value = Some(RowValue(RowOf(w, k)))]

OldRec(old, k) == IF k \in DOMAIN old THEN old[k] ELSE EmptyRec

NewOptions(old, ks, w) ==
    [k \in DOMAIN old \cup ks |->
        IF k \in ks THEN RecFromWidgets(w, OldRec(old, k), k) ELSE old[k]]

(* The state of the widgets as the only entry of the document. *)
PutOnlyCommandState(data, label, w) ==
    [data EXCEPT !.commands =
        (label :> [options |-> NewOptions(CmdStateOf(data, label).options,
                                          SeqToSet(categorize_keys(w.current_meta)),
                                          w),
                   output |-> Some(TextGet(w.output))])]

(* Lines 1139-1158 and 1243-1262: the state of the widgets under a label. *)
PutCommandState(data, label, w) ==
    [data EXCEPT !.commands =
        (label :> [options |-> NewOptions(CmdStateOf(data, label).options,
                                          SeqToSet(categorize_keys(w.current_meta)),
                                          w),
                   output |-> Some(TextGet(w.output))]) @@ @]

(* Lines 1159-1161 and 1264-1266: self._prefs = data; json.dump(data, f) *)
WriteFile(w, data) ==
    [w EXCEPT !.prefs = data, !.disk = File("doc", data), !.writes = @ + 1]

(* Lines 1127-1135: data.update of the globals. *)
PutGlobals(data, w) ==
    [data EXCEPT !.cwd = Some(Strip(w.cwd_var)),
                 !.db = Some(Strip(w.db_var)),
                 !.linkly = Some(Strip(w.linkly_var)),
                 !.detail = Some(w.detail_var),
                 !.quiet = Some(w.quiet_var),
                 !.debug = Some(w.debug_var),
                 !.selected_command = Some(w.cmd_var)]

(* _save_prefs without the test of _suspend_save. *)
save_prefs_unsuspended(w) ==
    IF w.current_meta # NoMeta
    THEN WriteFile(w, PutCommandState(PutGlobals(w.prefs, w), w.cmd_var, w))
    ELSE WriteFile(w, PutGlobals(w.prefs, w))

(* _save_prefs *)
save_prefs(w) ==
    IF w.suspend_save THEN w
    ELSE IF w.current_meta # NoMeta
    THEN WriteFile(w, PutCommandState(PutGlobals(w.prefs, w), w.cmd_var, w))
    ELSE WriteFile(w, PutGlobals(w.prefs, w))

(* _save_state_for_label *)
save_state_for_label(w, label) ==
    IF w.suspend_save THEN w
    ELSE IF label = "" \/ w.current_meta = NoMeta THEN w
    ELSE WriteFile(w, PutCommandState(w.prefs, label, w))

(* _update_preview: writes preview_var only, which the model leaves out. *)
update_preview(w) == w

-----------------------------------------------------------------------------
(* The methods of TdGuiApp and the callbacks of its Tk variables call one  *)
(* another through Do, which takes the name of the method, the object and  *)
(* the arguments of the call.                                              *)

RECURSIVE Do(_, _, _)

(* _ensure_selected_row: a flag row starts checked, a value row starts     *)
(* with str(default) unless the default is None or False.                  *)
row_without_default(spec, k) ==
    IF is_flag(spec) THEN FlagRow(k, TRUE) ELSE ValueRow(k, <<>>)

NewRow(spec, k) ==
    IF is_flag(spec) THEN FlagRow(k, TRUE)
    ELSE IF spec.default \in {None, Some(PyFalse)} THEN ValueRow(k, <<>>)
    ELSE ValueRow(k, spec.default[1])

(* _ensure_selected_row with the new row put before the others. *)
ensure_row_first(w, k) ==
    IF IsSome(RowOf(w, k)) THEN w
    ELSE [w EXCEPT !.selected = <<NewRow(SpecByKey(w.current_meta, k), k)>> \o @]

ensure_selected_row(w, k) ==
    IF IsSome(RowOf(w, k)) THEN w
    ELSE [w EXCEPT !.selected = Append(@, NewRow(SpecByKey(w.current_meta, k), k))]

(* _remove_selected_row without the pop of line 540. *)
remove_no_row(w, k) ==
    IF RowOf(w, k) = None THEN w ELSE Do("_save_prefs", w, <<>>)

(* _remove_selected_row *)
remove_selected_row(w, k) ==
    IF RowOf(w, k) = None THEN w
    ELSE Do("_save_prefs",
            [w EXCEPT !.selected = SelectSeq(@, LAMBDA r : r.key # k)], <<>>)

SameGroup(label, j, k) ==
    /\ j # k
    /\ IsSome(SpecByKey(label, j).group_id)
    /\ SpecByKey(label, j).group_id = SpecByKey(label, k).group_id

(* The loop of lines 484-490 over self.widget_vars, in insertion order. *)
UnselectOne(w, k, o) ==
    IF SameGroup(w.current_meta, k, o) /\ w.widget_vars[o]
    THEN Do("selected.set", w, <<o, FALSE>>) ELSE w

RECURSIVE UnselectOthers(_, _, _)
UnselectOthers(w, k, others) ==
    IF others = <<>> THEN w
    ELSE UnselectOthers(UnselectOne(w, k, Head(others)), k, Tail(others))

(* Lines 492-497. *)
ShowOrRemove(w, k, sel) ==
    IF sel THEN Do("_ensure_selected_row", w, <<k>>)
    ELSE Do("_remove_selected_row", w, <<k>>)

(* _on_toggle_option without the loop of lines 482-490. *)
toggle_without_exclusion(w, k, sel) == update_preview(ShowOrRemove(w, k, sel))

(* _on_toggle_option *)
on_toggle_option(w, k, sel) ==
    update_preview(ShowOrRemove(
        IF sel /\ IsSome(SpecByKey(w.current_meta, k).group_id)
        THEN UnselectOthers(w, k, categorize_keys(w.current_meta))
        ELSE w,
        k, sel))

(* sel_var.set(b): the write, then the trace of lines 464-466. *)
set_selected(w, k, b) ==
    Do("_save_prefs",
       Do("_on_toggle_option", [w EXCEPT !.widget_vars[k] = b], <<k, b>>), <<>>)

(* val_var.set(v) of a row: the write, then the trace of lines 510 and 524. *)
PutFlag(rows, k, b) ==
    [i \in 1..Len(rows) |->
        IF rows[i].key = k /\ IsSome(rows[i].flag) THEN FlagRow(k, b) ELSE rows[i]]

PutValue(rows, k, v) ==
    [i \in 1..Len(rows) |->
        IF rows[i].key = k /\ IsSome(rows[i].value) THEN ValueRow(k, v) ELSE rows[i]]

set_flag(w, k, b) ==
    Do("_save_prefs", update_preview([w EXCEPT !.selected = PutFlag(@, k, b)]), <<>>)

(* The write of a value whose trace does not save. *)
set_value_unsaved(w, k, v) == update_preview([w EXCEPT !.selected = PutValue(@, k, v)])

set_value(w, k, v) ==
    Do("_save_prefs", update_preview([w EXCEPT !.selected = PutValue(@, k, v)]), <<>>)

(* The traces of the global options, lines 407-417. *)
set_cwd(w, v) == Do("_save_prefs", update_preview([w EXCEPT !.cwd_var = v]), <<>>)
set_db(w, v) == Do("_save_prefs", update_preview([w EXCEPT !.db_var = v]), <<>>)
set_linkly(w, v) ==
    Do("_save_prefs", update_preview([w EXCEPT !.linkly_var = v]), <<>>)
set_detail(w, n) == Do("_save_prefs", [w EXCEPT !.detail_var = n], <<>>)
set_quiet(w, n) == Do("_save_prefs", [w EXCEPT !.quiet_var = n], <<>>)
set_debug(w, n) == Do("_save_prefs", [w EXCEPT !.debug_var = n], <<>>)

-----------------------------------------------------------------------------
(* The run timer.  The status is "Running" or "Finished" followed by the   *)
(* elapsed time, which the model leaves out; _tick_timer rewrites the      *)
(* elapsed time while _timer_running is true and changes nothing else.     *)

(* _start_timer *)
start_timer(w) ==
    [w EXCEPT !.timer_start = Some("t"), !.timer_running = TRUE,
              !.run_status = "Running"]

(* _finish_timer *)
finish_timer(w) ==
    IF w.timer_start = None THEN [w EXCEPT !.run_status = "Finished"]
    ELSE [w EXCEPT !.timer_running = FALSE, !.run_status = "Finished"]

-----------------------------------------------------------------------------
(* Routes of the held output.                                              *)

(* _clear_routes *)
clear_routes(w) == [w EXCEPT !.route_cards = <<>>]

(* _build_route_cards: a card per route, holding the destination its       *)
(* buttons copy and swap.                                                  *)
build_route_cards(rs) == [i \in 1..Len(rs) |-> Strip(rs[i].dest)]

(* _process_routes_from_output *)
process_routes_from_output(w) ==
    IF w.current_meta = NoMeta \/ cmd_metas[w.current_meta].name # "run"
    THEN clear_routes(w)
    ELSE [w EXCEPT !.route_cards = build_route_cards(parse_routes(TextGet(w.output)))]

-----------------------------------------------------------------------------
(* Restoring and switching commands.                                       *)

(* Lines 1197-1209: the row takes the flag or the value of the record. *)
ApplyRow(w, k, opt) ==
    IF is_flag(SpecByKey(w.current_meta, k))
    THEN Do("flag.set", w, <<k, Get(opt.flag, TRUE)>>)
    ELSE IF IsSome(opt.value) THEN Do("value.set", w, <<k, opt.value[1]>>)
    ELSE w

(* Lines 1196-1198.  The record opt is the object inside self._prefs,      *)
(* which a save in between updates in place: it is read here, after        *)
(* sel_var.set has run its trace.                                          *)
ApplySelected(w, k, target_sel) ==
    IF target_sel
    THEN ApplyRow(Do("_ensure_selected_row", w, <<k>>), k,
                  RecOf(w.prefs, w.cmd_var, k)[1])
    ELSE w

(* Lines 1188-1195. *)
ApplyRec(w, k, target_sel) ==
    ApplySelected(Do("selected.set", w, <<k, target_sel>>), k, target_sel)

(* The loop body with target_sel taken from the record alone. *)
apply_recorded_selection(w, k, opt) ==
    IF opt = None \/ opt = Some(EmptyRec) THEN w
    ELSE ApplyRec(w, k, Get(opt[1].selected, FALSE))

(* The body of the loop of lines 1184-1209, for one spec. *)
ApplyOne(w, k, opt) ==
    IF opt = None \/ opt = Some(EmptyRec) THEN w
    ELSE ApplyRec(w, k, is_required(w.current_meta, k) \/ Get(opt[1].selected, FALSE))

RECURSIVE ApplyOptions(_, _)
ApplyOptions(w, ks) ==
    IF ks = <<>> THEN w
    ELSE ApplyOptions(ApplyOne(w, Head(ks), RecOf(w.prefs, w.cmd_var, Head(ks))),
                      Tail(ks))

(* Lines 1210-1224: the saved output, and the cards of 'run'. *)
ApplyOutput(w, out) ==
    IF IsSome(out)
    THEN IF cmd_metas[w.current_meta].name = "run"
         THEN Do("_process_routes_from_output", [w EXCEPT !.output = out[1]], <<>>)
         ELSE [w EXCEPT !.output = out[1]]
    ELSE w

OutputOf(w) == CmdStateOf(w.prefs, w.cmd_var).output

RestoreOutput(w) == ApplyOutput(w, OutputOf(w))

(* _apply_saved_state_for_current *)
apply_saved_state_for_current(w) ==
    IF w.current_meta = NoMeta THEN w
    ELSE RestoreOutput(ApplyOptions(w, categorize_keys(w.current_meta)))

(* The loop of lines 447-471: a checkbox per spec, required ones checked   *)
(* and given their editor row.                                             *)
AddSelector(w, k, req) ==
    IF req
    THEN Do("_ensure_selected_row", [w EXCEPT !.widget_vars = (k :> req) @@ @], <<k>>)
    ELSE [w EXCEPT !.widget_vars = (k :> req) @@ @]

RECURSIVE BuildSelector(_, _)
BuildSelector(w, ks) ==
    IF ks = <<>> THEN w
    ELSE BuildSelector(AddSelector(w, Head(ks), is_required(w.current_meta, Head(ks))),
                       Tail(ks))

(* Lines 431-436: the state of the command being left is saved. *)
LeaveCurrent(w) ==
    IF IsSome(w.current_cmd_label) /\ w.current_meta # NoMeta
    THEN Do("_save_state_for_label", w, <<w.current_cmd_label[1]>>) ELSE w

(* Lines 437-478, for the command of cmd_var. *)
Activate(w, name) ==
    IF name \notin DOMAIN cmd_metas
    THEN [w EXCEPT !.current_meta = NoMeta, !.widget_vars = <<>>, !.selected = <<>>]
    ELSE [Do("_save_prefs",
             update_preview(Do("_apply_saved_state_for_current",
                 BuildSelector([w EXCEPT !.current_meta = name,
                                         !.widget_vars = <<>>, !.selected = <<>>],
                               categorize_keys(name)),
                 <<>>)),
             <<>>)
          EXCEPT !.current_cmd_label = Some(name)]

(* _on_command_change, once cmd_var holds the name chosen. *)
on_command_change(w) == Activate(LeaveCurrent(w), w.cmd_var)

(* Lines 1092-1110: a global the document has is written to its variable. *)
LoadGlobal(w, method, val) == IF IsSome(val) THEN Do(method, w, <<val[1]>>) ELSE w

LoadGlobals(w, data) ==
    LoadGlobal(LoadGlobal(LoadGlobal(LoadGlobal(LoadGlobal(LoadGlobal(
        [w EXCEPT !.prefs = data, !.restore_cmd = data.selected_command],
        "cwd_var.set", data.cwd), "db_var.set", data.db),
        "linkly_var.set", data.linkly), "detail_var.set", data.detail),
        "quiet_var.set", data.quiet), "debug_var.set", data.debug)

(* _load_prefs *)
load_prefs(w) ==
    IF w.disk.kind = "missing" THEN w
    ELSE IF w.disk.kind = "corrupt" THEN [w EXCEPT !.prefs = EmptyDoc]
    ELSE LoadGlobals(w, DocOf(w.disk))

(* Lines 829-833: the spec with dest "starting" or the name --from. *)
IsFromSpec(sp) ==
    sp.dest = Some("starting")
    \/ (long_flag(sp).dashes = 2 /\ long_flag(sp).bare = "from")

FromSpecs(w) ==
    IF w.current_meta = NoMeta THEN <<>>
    ELSE SelectSeq(AllSpecs(cmd_metas[w.current_meta]), IsFromSpec)

(* Lines 834-846: the spec is selected and its value becomes the destination. *)
PutFromValue(w, k, dest) ==
    IF IsSome(RowOf(w, k)) /\ IsSome(RowOf(w, k)[1].value)
    THEN Do("value.set", w, <<k, dest>>) ELSE w

SelectFrom(w, k) ==
    IF k \in DOMAIN w.widget_vars /\ ~w.widget_vars[k]
    THEN Do("_ensure_selected_row", Do("selected.set", w, <<k, TRUE>>), <<k>>)
    ELSE w

SwapOnRun(w, found, dest) ==
    IF found = <<>> THEN w
    ELSE Do("_save_prefs",
            update_preview(PutFromValue(SelectFrom(w, key(found[1])),
                                        key(found[1]), dest)), <<>>)

SwapTo(w, dest) == SwapOnRun(w, FromSpecs(w), dest)

(* _swap_from_to_dest *)
swap_from_to_dest(w, dest) ==
    IF w.current_meta # NoMeta /\ cmd_metas[w.current_meta].name = "run"
    THEN SwapTo(w, dest)
    ELSE IF "run" \in DOMAIN cmd_metas
    THEN SwapTo(Do("_on_command_change", [w EXCEPT !.cmd_var = "run"], <<>>), dest)
    ELSE w

(* Lines 1280-1288: the globals are set back, each running its trace. *)
ClearGlobals(w) ==
    Do("debug_var.set", Do("quiet_var.set", Do("detail_var.set",
        Do("linkly_var.set", Do("db_var.set", Do("cwd_var.set", w, <<<<>>>>),
            <<<<>>>>), <<<<>>>>), <<0>>), <<0>>), <<0>>)

(* _reset_defaults *)
reset_defaults(w) ==
    Do("_save_prefs",
       update_preview(Do("_on_command_change",
           [ClearGlobals([w EXCEPT !.disk = MissingFile, !.prefs = EmptyDoc,
                                   !.restore_cmd = None])
            EXCEPT !.cmd_var = all_cmds[1]], <<>>)),
       <<>>)

(* The call of a method by its name. *)
Do(method, w, x) ==
    CASE method = "_save_prefs" -> save_prefs(w)
      [] method = "_save_state_for_label" -> save_state_for_label(w, x[1])
      [] method = "_ensure_selected_row" -> ensure_selected_row(w, x[1])
      [] method = "_remove_selected_row" -> remove_selected_row(w, x[1])
      [] method = "_on_toggle_option" -> on_toggle_option(w, x[1], x[2])
      [] method = "selected.set" -> set_selected(w, x[1], x[2])
      [] method = "flag.set" -> set_flag(w, x[1], x[2])
      [] method = "value.set" -> set_value(w, x[1], x[2])
      [] method = "cwd_var.set" -> set_cwd(w, x[1])
      [] method = "db_var.set" -> set_db(w, x[1])
      [] method = "linkly_var.set" -> set_linkly(w, x[1])
      [] method = "detail_var.set" -> set_detail(w, x[1])
      [] method = "quiet_var.set" -> set_quiet(w, x[1])
      [] method = "debug_var.set" -> set_debug(w, x[1])
      [] method = "_process_routes_from_output" -> process_routes_from_output(w)
      [] method = "_apply_saved_state_for_current" -> apply_saved_state_for_current(w)
      [] method = "_on_command_change" -> on_command_change(w)
      [] method = "_load_prefs" -> load_prefs(w)
      [] method = "_swap_from_to_dest" -> swap_from_to_dest(w, x[1])
      [] method = "_reset_defaults" -> reset_defaults(w)

-----------------------------------------------------------------------------
(* The session: TdGuiApp.__init__ step by step, then the handlers of the   *)
(* user's operations, the run of the external process, close and restart.  *)

(* The object as __init__ has it before _load_prefs. *)
FreshApp ==
    [suspend_save |-> TRUE, prefs |-> EmptyDoc, restore_cmd |-> None,
     cwd_var |-> <<>>, db_var |-> <<>>, linkly_var |-> <<>>,
     detail_var |-> 0, quiet_var |-> 0, debug_var |-> 0,
     cmd_var |-> "", current_meta |-> NoMeta, current_cmd_label |-> None,
     widget_vars |-> <<>>, selected |-> <<>>,
     output |-> <<>>, route_cards |-> <<>>, running |-> 0,
     timer_start |-> None, timer_running |-> FALSE, run_status |-> ""]

(* The handlers work on the object together with the file. *)
World == app @@ [disk |-> disk, writes |-> 0]
AppOf(w) == [f \in DOMAIN FreshApp |-> w[f]]

(* What the user types and what the process prints. *)
EditVals == {<<"a">>}
CwdVals == {<<>>, <<" ", "c">>}
DbVals == {<<>>, <<"d">>}
LinklyVals == {<<>>, <<"l">>}
CounterVals == {0, 1}
RouteLine == <<"a", "-", ">", "b", "\n">>
OutLines == {RouteLine}

(* Files the first session may find: none, one that is not JSON, one     *)
(* that is no object, and documents an earlier version or an editor left: *)
(* both members of the group recorded selected and the positional         *)
(* recorded unselected; a command that no longer exists and a counter     *)
(* beyond the range of its spinbox.                                       *)
SavedRun ==
    [EmptyDoc EXCEPT
        !.selected_command = Some("run"),
        !.cwd = Some(<<" ", "c">>),
        !.detail = Some(1),
        !.commands = ("run" :>
            [options |-> ("item" :> [EmptyRec EXCEPT !.selected = Some(FALSE),
                                                     !.value = Some(<<"a">>)])
                      @@ ("-d" :> [EmptyRec EXCEPT !.selected = Some(TRUE),
                                                    !.flag = Some(FALSE)])
                      @@ ("avoid" :> [EmptyRec EXCEPT !.selected = Some(TRUE),
                                                      !.value = Some(<<"a">>)]),
             output |-> Some(RouteLine)])]

SavedUnknown ==
    [SavedRun EXCEPT
        !.selected_command = Some("gone"), !.cwd = None, !.detail = Some(7),
        !.commands = @ @@ ("gone" :>
            [options |-> ("x" :> [EmptyRec EXCEPT !.selected = Some(TRUE)]),
             output |-> Some(<<"x">>)])]

InitialFiles ==
    {MissingFile, File("corrupt", EmptyDoc), File("nondict", EmptyDoc),
     File("doc", SavedRun), File("doc", SavedUnknown)}

(* What the properties remember of a state: the selected set with the     *)
(* value of every editor row, and with it the globals and the output.     *)
Snapshot(a) ==
    [sel |-> {k \in DOMAIN a.widget_vars : a.widget_vars[k]},
     vals |-> [k \in {a.selected[i].key : i \in 1..Len(a.selected)} |->
                  LET r == RowOf(a, k)[1] IN [flag |-> r.flag, value |-> r.value]]]

FullSnapshot(a) ==
    [cmd |-> a.current_cmd_label, state |-> Snapshot(a), output |-> a.output,
     cwd |-> Strip(a.cwd_var), db |-> Strip(a.db_var),
     linkly |-> Strip(a.linkly_var),
     detail |-> a.detail_var, quiet |-> a.quiet_var, debug |-> a.debug_var]

(* The pairs <<j, k>> of one group with j selected in a and k selected   *)
(* by the step from a to b.                                               *)
ExclStep(a, b) ==
    IF a.current_meta = NoMeta \/ a.current_meta # b.current_meta THEN {}
    ELSE {p \in (DOMAIN a.widget_vars) \X (DOMAIN a.widget_vars) :
            /\ SameGroup(a.current_meta, p[1], p[2])
            /\ a.widget_vars[p[1]] /\ ~a.widget_vars[p[2]]
            /\ p[2] \in DOMAIN b.widget_vars /\ b.widget_vars[p[2]]}

LabelOf(a) == IF a.current_meta = NoMeta THEN None ELSE a.current_cmd_label

(* The history: writes counts the writes of the file while __init__ runs, *)
(* activated holds the commands activated in the session, left the state  *)
(* a command had when the user left it, back the state the command just   *)
(* returned to had when it was left, closed the state at the last close   *)
(* (until the first operation of the next session), excl the pairs of a   *)
(* group of which the last step selected one while the other was          *)
(* selected, reset whether the last step was a reset, vector the argument *)
(* vector at the last close (kept as long as closed is).                  *)
NoHist ==
    [writes |-> 0, ops |-> 0, sessions |-> 1, activated |-> {},
     left |-> <<>>, back |-> None, closed |-> None, excl |-> {},
     reset |-> FALSE, vector |-> None]

Commit(w, op) ==
    LET new == AppOf(w)
        from == LabelOf(app)
        to == LabelOf(new)
        moved == pc = "ready" /\ IsSome(from) /\ IsSome(to) /\ from # to
        kept == [l \in DOMAIN hist.left \ {Get(to, "")} |-> hist.left[l]]
    IN  /\ app' = new
        /\ disk' = w.disk
        /\ hist' = [hist EXCEPT
               !.writes = IF pc = "ready" THEN @ ELSE @ + w.writes,
               !.ops = IF pc = "ready" THEN @ + 1 ELSE @,
               !.activated = @ \cup {to[i] : i \in 1..Len(to)},
               !.left = IF op = "reset" THEN <<>>
                        ELSE IF moved THEN (from[1] :> Snapshot(app)) @@ kept
                        ELSE kept,
               !.back = IF op = "command" /\ moved /\ to[1] \in DOMAIN hist.left
                        THEN Some(hist.left[to[1]]) ELSE None,
               !.closed = IF op = "close" THEN Some(FullSnapshot(app))
                          ELSE IF pc = "ready" THEN None ELSE @,
               !.excl = ExclStep(app, new),
               !.reset = (op = "reset"),
               !.vector = IF op = "close" THEN Some(build_args(app))
                          ELSE IF pc = "ready" THEN None ELSE @]
        /\ UNCHANGED <<parts, text, routes, procs, events>>

Init ==
    /\ pc = "load"
    /\ app = FreshApp
    /\ disk \in InitialFiles
    /\ hist = NoHist
    /\ parts = <<>>
    /\ text = <<>>
    /\ routes = <<>>
    /\ procs = <<>>
    /\ events = <<>>

(* Line 182 without the try of _load_prefs: a file that cannot be read as *)
(* an object ends the start-up.                                           *)
InitLoadUnguarded ==
    /\ pc = "load"
    /\ IF disk.kind \in {"corrupt", "nondict"}
       THEN pc' = "failed" /\ UNCHANGED <<app, disk, hist, parts, text, routes, procs, events>>
       ELSE pc' = "activate" /\ Commit(Do("_load_prefs", World, <<>>), "load")

(* __init__, line 182 *)
InitLoad ==
    /\ pc = "load"
    /\ pc' = "activate"
    /\ Commit(Do("_load_prefs", World, <<>>), "load")

(* __init__, lines 191-199 *)
InitActivate ==
    /\ pc = "activate"
    /\ pc' = "apply"
    /\ LET first == IF IsSome(app.restore_cmd)
                       /\ app.restore_cmd[1] \in DOMAIN cmd_metas
                    THEN app.restore_cmd[1] ELSE all_cmds[1]
       IN  Commit(Do("_on_command_change", [World EXCEPT !.cmd_var = first], <<>>),
                  "activate")

(* __init__, line 201 *)
InitApply ==
    /\ pc = "apply"
    /\ pc' = "save"
    /\ Commit(Do("_apply_saved_state_for_current", World, <<>>), "apply")

(* __init__, lines 203-207 *)
InitSave ==
    /\ pc = "save"
    /\ pc' = "ready"
    /\ Commit(Do("_save_prefs", [World EXCEPT !.suspend_save = FALSE], <<>>), "init")

Act(w, op) == pc = "ready" /\ hist.ops < MaxOps /\ pc' = pc /\ Commit(w, op)

(* A click on the checkbox of a spec that is not required. *)
ToggleOf(k) ==
    /\ ~is_required(app.current_meta, k)
    /\ Act(Do("selected.set", World, <<k, ~app.widget_vars[k]>>), "toggle")

Toggle == \E k \in DOMAIN app.widget_vars : ToggleOf(k)

(* Typing in the entry of an editor row. *)
EditValue ==
    \E i \in 1..Len(app.selected), v \in EditVals :
        /\ IsSome(app.selected[i].value)
        /\ Act(Do("value.set", World, <<app.selected[i].key, v>>), "edit")

(* A click on the checkbox of a flag's editor row. *)
EditFlag ==
    \E i \in 1..Len(app.selected) :
        /\ IsSome(app.selected[i].flag)
        /\ Act(Do("flag.set", World, <<app.selected[i].key, ~app.selected[i].flag[1]>>),
               "flag")

SetCwd == \E v \in CwdVals : Act(Do("cwd_var.set", World, <<v>>), "global")
SetDb == \E v \in DbVals : Act(Do("db_var.set", World, <<v>>), "global")
SetLinkly == \E v \in LinklyVals : Act(Do("linkly_var.set", World, <<v>>), "global")
SetDetail == \E n \in CounterVals : Act(Do("detail_var.set", World, <<n>>), "global")
SetQuiet == \E n \in CounterVals : Act(Do("quiet_var.set", World, <<n>>), "global")
SetDebug == \E n \in CounterVals : Act(Do("debug_var.set", World, <<n>>), "global")

(* The combobox of line 225. *)
SelectCommand ==
    \E l \in DOMAIN cmd_metas :
        Act(Do("_on_command_change", [World EXCEPT !.cmd_var = l], <<>>), "command")

(* The "Swap to From" button of a route card. *)
SwapToFrom ==
    \E i \in 1..Len(app.route_cards) :
        Act(Do("_swap_from_to_dest", World, <<app.route_cards[i]>>), "swap")

Reset == Act(Do("_reset_defaults", World, <<>>), "reset")

(* _run: the output and the cards are cleared and a reader thread starts *)
(* with its process, whether or not an earlier one is still running: the  *)
(* Run button of line 249 is never disabled.  running counts the readers  *)
(* that have not ended.                                                   *)
Run ==
    Act(clear_routes(start_timer([World EXCEPT !.output = <<>>, !.running = @ + 1])),
        "run")

(* The reader thread passes a line on, _append_output inserts it. *)
ProcLine ==
    \E ln \in OutLines :
        /\ app.running > 0
        /\ Act([World EXCEPT !.output = @ \o ln], "line")

(* The process ends: the callbacks of lines 675-679. *)
ProcExit ==
    /\ app.running > 0
    /\ Act(Do("_save_prefs", Do("_process_routes_from_output",
               finish_timer([World EXCEPT !.running = @ - 1]), <<>>), <<>>), "exit")

(* _on_close *)
Close ==
    /\ pc = "ready"
    /\ hist.ops < MaxOps
    /\ pc' = "closed"
    /\ Commit(Do("_save_prefs", World, <<>>), "close")

(* The program is started again and finds the file as it was left. *)
Start ==
    /\ pc = "closed"
    /\ hist.sessions < MaxSessions
    /\ pc' = "load"
    /\ app' = FreshApp
    /\ hist' = [hist EXCEPT !.writes = 0, !.sessions = @ + 1,
                            !.activated = {}, !.left = <<>>, !.back = None,
                            !.excl = {}, !.reset = FALSE]
    /\ UNCHANGED <<disk, parts, text, routes, procs, events>>

Next ==
    \/ InitLoad \/ InitActivate \/ InitApply \/ InitSave
    \/ Toggle \/ EditValue \/ EditFlag
    \/ SetCwd \/ SetDb \/ SetLinkly \/ SetDetail \/ SetQuiet \/ SetDebug
    \/ SelectCommand \/ SwapToFrom \/ Reset
    \/ Run \/ ProcLine \/ ProcExit
    \/ Close \/ Start

Spec == Init /\ [][Next]_vars

-----------------------------------------------------------------------------
(* Properties of the session.                                              *)

(* C1: in every state, of the specs of one mutual-exclusion group of the   *)
(* active command at most one is selected and at most one has an editor    *)
(* row; and after a step that selected one spec of a group while another   *)
(* was selected, the other is neither selected nor has a row.              *)
C1_GroupExclusive ==
    /\ \A j, k \in DOMAIN app.widget_vars :
          SameGroup(app.current_meta, j, k) =>
              /\ ~(app.widget_vars[j] /\ app.widget_vars[k])
              /\ ~(IsSome(RowOf(app, j)) /\ IsSome(RowOf(app, k)))
    /\ \A p \in hist.excl :
          /\ app.widget_vars[p[2]] /\ ~app.widget_vars[p[1]]
          /\ RowOf(app, p[1]) = None

C1_Witness ==
    /\ hist.excl # {}
    /\ \E p \in hist.excl : IsSome(RowOf(app, p[2]))

(* C2: when the user, after start-up, has left a command for another and   *)
(* selects it again, the command has the selected set and the values it    *)
(* had when it was left.                                                   *)
C2_RestoredAsLeft == IsSome(hist.back) => Snapshot(app) = hist.back[1]

(* C3: once a session that follows a close is ready, the globals, the      *)
(* active command, its selected set, its values and its output are those   *)
(* of the moment of the close.                                             *)
C3_RoundTrip ==
    (pc = "ready" /\ IsSome(hist.closed)) => FullSnapshot(app) = hist.closed[1]

(* C4: no step but a reset changes the entry (options and output) the      *)
(* file holds of a command that has not been activated in the session.     *)
Labels == DOMAIN cmd_metas \cup {"gone"}
EntryOf(f, label) == CmdStateOf(DocOf(f), label)

C4_OtherEntriesKept ==
    [][~hist'.reset =>
          \A y \in Labels \ hist'.activated : EntryOf(disk', y) = EntryOf(disk, y)]_vars

C4_Witness ==
    /\ pc = "ready"
    /\ hist.ops > 0
    /\ "run" \notin hist.activated
    /\ DocOf(disk).quiet = Some(1)
    /\ EntryOf(disk, "run") = EntryOf(File("doc", SavedUnknown), "run")
    /\ EntryOf(disk, "gone") = EntryOf(File("doc", SavedUnknown), "gone")

(* C5: the steps of __init__ before the final save (load, activation,      *)
(* restoration) leave the file alone and write nothing, and the final save *)
(* is the one write of the start-up.                                       *)
C5_OneSaveAfterRestore ==
    [][/\ pc \in {"load", "activate", "apply"} => disk' = disk /\ hist'.writes = 0
       /\ pc = "save" => hist'.writes = 1]_vars

C5_Witness ==
    /\ pc = "ready"
    /\ hist.ops = 0
    /\ hist.writes = 1
    /\ app.detail_var = 1
    /\ Len(app.selected) > 1
    /\ disk # File("doc", SavedRun)

-----------------------------------------------------------------------------
(* The argument builder on its own: the object in a state its editor rows  *)
(* and globals can have, and _update_preview building the vector from it,  *)
(* twice.                                                                  *)

MaxLevel == 2      \* most presses of the verbosity, quiet and debug counters

ItemVals == {<<>>, <<"a">>}
AvoidVals ==
    {<<>>, <<" ">>, <<"5">>, <<" ", "a", " ">>, <<"a", ",", "b">>, <<",">>,
     <<" ", "a", " ", ",", " ", ",", "b", " ">>}
StartVals == {<<>>, <<"a", ",", "b">>}
PathVals == {<<>>, <<" ">>, <<" ", "c">>}

(* The rows of 'run': the positional first (the activation gives it its    *)
(* row), then the rows of the switches in the order the user checked them; *)
(* of the group, at most one.                                              *)
GroupRows ==
    {<<>>} \cup {<<FlagRow("-d", b)>> : b \in BOOLEAN}
           \cup {<<ValueRow("avoid", v)>> : v \in AvoidVals}
StartRows == {<<>>} \cup {<<ValueRow("starting", v)>> : v \in StartVals}
RunRows ==
    {<<ValueRow("item", x[1])>> \o x[2] \o x[3] : x \in ItemVals \X GroupRows \X StartRows}
    \cup {<<ValueRow("item", x[1])>> \o x[3] \o x[2] :
             x \in ItemVals \X GroupRows \X StartRows}
RowsOf(label) == IF label = "run" THEN RunRows ELSE {<<>>}

HasRow(rows, k) == \E i \in 1..Len(rows) : rows[i].key = k
CheckedOf(label, rows) == [k \in DOMAIN SpecTable[label] |-> HasRow(rows, k)]

Built(label, rows, cwd, db, linkly, n) ==
    [FreshApp EXCEPT !.suspend_save = FALSE,
                     !.cmd_var = label, !.current_meta = label,
                     !.current_cmd_label = Some(label),
                     !.widget_vars = CheckedOf(label, rows), !.selected = rows,
                     !.cwd_var = cwd, !.db_var = db, !.linkly_var = linkly,
                     !.detail_var = n[1], !.quiet_var = n[2], !.debug_var = n[3]]

BuildApps ==
    UNION {{Built(l, rows, cwd, db, linkly, n) :
               rows \in RowsOf(l),
               cwd \in PathVals, db \in DbVals, linkly \in LinklyVals,
               n \in (0..MaxLevel) \X (0..1) \X (0..1)} : l \in DOMAIN cmd_metas}

BuildInit ==
    /\ pc = "build"
    /\ app \in BuildApps
    /\ disk = MissingFile
    /\ hist = NoHist
    /\ parts = <<>>
    /\ text = <<>>
    /\ routes = <<>>
    /\ procs = <<>>
    /\ events = <<>>

(* _update_preview with the globals written back stripped. *)
BuildInPlace ==
    /\ pc \in {"build", "built"}
    /\ pc' = IF pc = "build" THEN "built" ELSE "rebuilt"
    /\ parts' = build_args(app)
    /\ app' = [app EXCEPT !.cwd_var = Strip(@), !.db_var = Strip(@),
                          !.linkly_var = Strip(@)]
    /\ UNCHANGED <<disk, hist, text, routes, procs, events>>

(* _update_preview, lines 615-629: parts = self._build_args() *)
Build ==
    /\ pc \in {"build", "built"}
    /\ pc' = IF pc = "build" THEN "built" ELSE "rebuilt"
    /\ parts' = build_args(app)
    /\ UNCHANGED <<app, disk, hist, text, routes, procs, events>>

BuildNext == Build

BuildSpec == BuildInit /\ [][BuildNext]_vars

-----------------------------------------------------------------------------
(* Properties of the argument builder.                                     *)

HasBuilt == pc \in {"built", "rebuilt"}
Meta == cmd_metas[app.current_meta]
Fixed == IF IsSome(Meta.fixed_args) THEN Meta.fixed_args[1] ELSE <<>>
WordsAt(ps, from, ws) ==
    /\ Len(ps) >= from + Len(ws) - 1
    /\ \A i \in 1..Len(ws) : ps[from + i - 1] = W(ws[i])

(* C6: the vector built begins with the fixed arguments when the command   *)
(* has some, and then not with the name followed by the fixed arguments    *)
(* nor with the fixed arguments followed by the name; it begins with the   *)
(* name, once, when the command has none.                                  *)
C6_HeadIsFixedOrName ==
    HasBuilt =>
        IF Fixed # <<>>
        THEN /\ WordsAt(parts, 1, Fixed)
             /\ ~WordsAt(parts, 1, <<Meta.name>> \o Fixed)
             /\ ~WordsAt(parts, 1, Fixed \o <<Meta.name>>)
        ELSE /\ WordsAt(parts, 1, <<Meta.name>>)
             /\ ~WordsAt(parts, 2, <<Meta.name>>)

C6_Witness ==
    /\ HasBuilt
    /\ Fixed # <<>>
    /\ Len(parts) > Len(Fixed)
    /\ parts[Len(Fixed) + 1] = W("-C")

(* The text without the whitespace at its ends. *)
NonSpace(s) == {i \in 1..Len(s) : ~IsSpace(s[i])}
Trimmed(s) ==
    IF NonSpace(s) = {} THEN <<>>
    ELSE SubSeq(s, CHOOSE i \in NonSpace(s) : \A j \in NonSpace(s) : i <= j,
                   CHOOSE i \in NonSpace(s) : \A j \in NonSpace(s) : j <= i)

(* The fields the commas of s separate. *)
Cuts(s) == {0, Len(s) + 1} \cup {i \in 1..Len(s) : s[i] = ","}
NthCut(s, n) == CHOOSE c \in Cuts(s) : Cardinality({d \in Cuts(s) : d < c}) = n - 1
Fields(s) ==
    [n \in 1..(Cardinality(Cuts(s)) - 1) |->
        Trimmed(SubSeq(s, NthCut(s, n) + 1, NthCut(s, n + 1) - 1))]
NonEmptyFields(s) == SelectSeq(Fields(s), LAMBDA f : f # <<>>)

(* The texts that follow the flag in the vector, and whether each          *)
(* occurrence of the flag is followed by a text.                           *)
FlagAt(ps, flag) == {i \in 1..Len(ps) : ps[i] = W(flag)}
NthFlag(ps, flag, n) ==
    CHOOSE i \in FlagAt(ps, flag) : Cardinality({j \in FlagAt(ps, flag) : j < i}) = n - 1
ValuesOf(ps, flag) ==
    [n \in 1..Cardinality(FlagAt(ps, flag)) |->
        IF NthFlag(ps, flag, n) < Len(ps) THEN ps[NthFlag(ps, flag, n) + 1]
        ELSE W("")]
Texts(vs) == [n \in 1..Len(vs) |-> V(vs[n])]

AvoidValue == RowValue(RowOf(app, "avoid"))
HasComma(s) == \E i \in 1..Len(s) : s[i] = ","

(* The statement of C7 as the specification has it: without a comma in the *)
(* trimmed value of the selected append switch, the flag and the value are *)
(* emitted, whatever the value.                                            *)
C7_FlagAndValue ==
    (HasBuilt /\ IsSome(RowOf(app, "avoid"))) =>
        ValuesOf(parts, "--avoid") =
            IF HasComma(Trimmed(AvoidValue))
            THEN Texts(NonEmptyFields(Trimmed(AvoidValue)))
            ELSE Texts(<<Trimmed(AvoidValue)>>)

(* C7: for the selected append switch, the vector has the flag followed by *)
(* a piece for each non-empty trimmed piece of a trimmed value with a      *)
(* comma, in order; the flag followed by the trimmed value when it has no  *)
(* comma and is not empty; and nothing of the switch when the trimmed      *)
(* value is empty.                                                         *)
C7_MultiExpansion ==
    (HasBuilt /\ IsSome(RowOf(app, "avoid"))) =>
        ValuesOf(parts, "--avoid") =
            IF HasComma(Trimmed(AvoidValue))
            THEN Texts(NonEmptyFields(Trimmed(AvoidValue)))
            ELSE IF Trimmed(AvoidValue) = <<>> THEN <<>>
            ELSE Texts(<<Trimmed(AvoidValue)>>)

C7_Witness ==
    /\ HasBuilt
    /\ AvoidValue = <<" ", "a", " ", ",", " ", ",", "b", " ">>
    /\ ValuesOf(parts, "--avoid") = <<V(<<"a">>), V(<<"b">>)>>

(* The global part the object calls for. *)
GlobalWords == {"-C", "--db", "-L", "-v", "-q", "-w"}
PairOf(flag, val) == IF Trimmed(val) = <<>> THEN <<>> ELSE <<W(flag), V(Trimmed(val))>>
Times(flag, n) == [i \in 1..n |-> W(flag)]
GlobalPart ==
    PairOf("-C", app.cwd_var) \o PairOf("--db", app.db_var)
    \o PairOf("-L", app.linkly_var)
    \o Times("-v", app.detail_var) \o Times("-q", app.quiet_var)
    \o Times("-w", app.debug_var)

(* C8: the vector built ends with the global part: the pairs of the        *)
(* working directory, the database and the link url, each when its trimmed *)
(* value is not empty, then the verbosity, quiet and debug flags, each as  *)
(* often as its counter says; and no word of the global part comes before. *)
C8_GlobalsLast ==
    HasBuilt =>
        /\ Len(parts) >= Len(GlobalPart)
        /\ SubSeq(parts, Len(parts) - Len(GlobalPart) + 1, Len(parts)) = GlobalPart
        /\ \A i \in 1..(Len(parts) - Len(GlobalPart)) :
              \A g \in GlobalWords : parts[i] # W(g)

C8_Witness ==
    /\ HasBuilt
    /\ Len(app.selected) = 3
    /\ Len(GlobalPart) = 10
    /\ Len(parts) > 12

-----------------------------------------------------------------------------
(* The route parser on its own: a text of up to MaxLines lines, parsed.    *)

LineAB == <<"a", "-", ">", "b">>
LineScored ==
    <<"a", " ", "-", ">", " ", "b", " ", "c", " ",
      "(", "s", "c", "o", "r", "e", ":", " ", "1", ")">>
LineColoured == <<ESC, "[", "1", "m", "c", "-", ">", "d", ESC, "[", "0", "m">>
LineIndented == <<" ", "a", "-", ">", "b", " ">>
LineNoOrigin == <<"-", ">", "b">>
LineDetail == <<" ", "x", " ">>
LineBlank == <<" ">>
LineEmpty == <<>>

SomeLines ==
    {LineAB, LineScored, LineColoured, LineIndented, LineNoOrigin, LineDetail,
     LineBlank, LineEmpty}

LineSeqs == UNION {[1..n -> SomeLines] : n \in 0..MaxLines}
SomeTexts == {Join(ls, <<"\n">>) : ls \in LineSeqs}

ParseInit ==
    /\ pc = "parse"
    /\ text \in SomeTexts
    /\ app = FreshApp
    /\ disk = MissingFile
    /\ hist = NoHist
    /\ parts = <<>>
    /\ routes = <<>>
    /\ procs = <<>>
    /\ events = <<>>

(* routes = self._parse_routes(text), line 743 *)
Parse ==
    /\ pc = "parse"
    /\ pc' = "parsed"
    /\ routes' = parse_routes(text)
    /\ UNCHANGED <<app, disk, hist, parts, text, procs, events>>

ParseNext == Parse

ParseSpec == ParseInit /\ [][ParseNext]_vars

-----------------------------------------------------------------------------
(* Properties of the route parser.                                         *)

(* The text without its colour sequences, and its lines. *)
Clean == strip_ansi(text)
Breaks(s) == {0, Len(s) + 1} \cup {i \in 1..Len(s) : s[i] = "\n"}
NthBreak(s, n) == CHOOSE c \in Breaks(s) : Cardinality({d \in Breaks(s) : d < c}) = n - 1
LinesOf(s) ==
    [n \in 1..(Cardinality(Breaks(s)) - 1) |->
        SubSeq(s, NthBreak(s, n) + 1, NthBreak(s, n + 1) - 1)]

(* A line 'origin -> destination (score: ...)': the text before the first  *)
(* arrow is the origin, the text after it up to the score annotation, if   *)
(* there is one, the destination, and neither is blank.                    *)
Arrows(ln) == {i \in 1..(Len(ln) - 1) : ln[i] = "-" /\ ln[i + 1] = ">"}
Arrow(ln) == CHOOSE i \in Arrows(ln) : \A j \in Arrows(ln) : i <= j
Origin(ln) == Trimmed(SubSeq(ln, 1, Arrow(ln) - 1))
Right(ln) == SubSeq(ln, Arrow(ln) + 2, Len(ln))
Scores(r) == {i \in 1..Len(r) : StartsWith(SubSeq(r, i, Len(r)), ScoreWord)}
BeforeScore(r) ==
    IF Scores(r) = {} THEN r
    ELSE SubSeq(r, 1, (CHOOSE i \in Scores(r) : \A j \in Scores(r) : i <= j) - 1)
Destination(ln) == Trimmed(BeforeScore(Right(ln)))
IsRouteLine(ln) == Arrows(ln) # {} /\ Origin(ln) # <<>> /\ Destination(ln) # <<>>

(* The first line is a route line and no later line starts a block. *)
OneUnit(ls) ==
    /\ ls # <<>>
    /\ IsRouteLine(ls[1])
    /\ \A n \in 2..Len(ls) : ~start_pat_match(ls[n])

(* C10: the empty text has no records; a text whose first line is a route  *)
(* line and whose other lines start no block has one record, whose         *)
(* destination is the right-hand side of the first line without the score  *)
(* annotation and whose block is the whole text (without colour            *)
(* sequences, trimmed at its ends), every line of it included.             *)
C10_OneRecord ==
    pc = "parsed" =>
        /\ text = <<>> => routes = <<>>
        /\ OneUnit(LinesOf(Clean)) =>
              /\ Len(routes) = 1
              /\ routes[1].dest = Destination(LinesOf(Clean)[1])
              /\ routes[1].block = Trimmed(Clean)

C10_Witness ==
    /\ pc = "parsed"
    /\ OneUnit(LinesOf(Clean))
    /\ LinesOf(Clean) = <<LineScored, LineEmpty, LineDetail>>
    /\ Len(routes) = 1
    /\ routes[1].dest = <<"b", " ", "c">>

(* C11: a text none of whose lines matches the start pattern has no       *)
(* records.                                                                *)
NoStartLine(ls) == \A n \in 1..Len(ls) : ~start_pat_match(ls[n])

C11_NoStartNoRecords ==
    (pc = "parsed" /\ NoStartLine(LinesOf(Clean))) => routes = <<>>

-----------------------------------------------------------------------------
(* Further properties of the session.                                      *)

CountOf(ps, tok) == Cardinality({i \in 1..Len(ps) : ps[i] = tok})

(* C12: in every state the three counters are integers from 0 to 5, and    *)
(* the vector built from the state has at most five -v, five -q and five   *)
(* -w.                                                                     *)
C12_CountersInRange ==
    /\ app.detail_var \in 0..5 /\ app.quiet_var \in 0..5 /\ app.debug_var \in 0..5
    /\ CountOf(build_args(app), W("-v")) <= 5
    /\ CountOf(build_args(app), W("-q")) <= 5
    /\ CountOf(build_args(app), W("-w")) <= 5

(* C13: with a file that is missing, is not JSON or holds no object, the   *)
(* load step goes on to the activation and leaves the raw document empty,  *)
(* the text globals empty, the counters 0 and no command to restore, and   *)
(* the activation makes the first command the active one.                  *)
DefaultsLoaded(a) ==
    /\ a.prefs = EmptyDoc
    /\ a.cwd_var = <<>> /\ a.db_var = <<>> /\ a.linkly_var = <<>>
    /\ a.detail_var = 0 /\ a.quiet_var = 0 /\ a.debug_var = 0
    /\ a.restore_cmd = None

C13_LoadNeverFails ==
    [][disk.kind # "doc" =>
          /\ pc = "load" => (pc' = "activate" /\ DefaultsLoaded(app'))
          /\ pc = "activate" =>
                /\ pc' = "apply"
                /\ DefaultsLoaded(app')
                /\ app'.current_meta = all_cmds[1]
                /\ app'.current_cmd_label = Some(all_cmds[1])]_vars

C13_Witness ==
    /\ pc = "apply"
    /\ disk.kind = "corrupt"
    /\ app.current_meta = "Update/Rebuild DB"
    /\ DefaultsLoaded(app)

(* C14: in no state are two runs active.                                   *)
C14_OneRunActive == app.running <= 1

-----------------------------------------------------------------------------
(* The run on its own: the clicks on Run, the reader threads with their    *)
(* processes, and the main loop running the callbacks the threads have     *)
(* scheduled with self.after(0, ...).  A call of after from a reader       *)
(* thread is handed to the thread of the interpreter, which queues the     *)
(* callbacks in the order of the calls.                                    *)

ProcNames == <<"p", "q", "r", "s">>
LineNumbers == <<"1", "2", "3", "4">>

(* The k-th line the r-th process prints: a route first, then details. *)
LineOf(r, k) ==
    IF k = 1 THEN <<ProcNames[r], "-", ">", "b", "\n">>
    ELSE <<ProcNames[r], LineNumbers[k], "\n">>

FailedToStart == <<"F", "\n">>
EndCalls == <<"_finish_timer", "_process_routes_from_output", "_save_prefs">>

(* A reader thread: the lines its process has still to print, the lines    *)
(* the thread has passed to _append_output, the lines the main loop has    *)
(* appended for it, the calls of after the thread has still to make once   *)
(* the lines have ended, and those of its end callbacks the main loop has  *)
(* run.                                                                    *)
Reader(todo, calls) ==
    [todo |-> todo, read |-> <<>>, appended |-> <<>>, calls |-> calls, done |-> {}]

(* The reader without the return of line 669: a failed launch ends like a  *)
(* run.                                                                    *)
readers_end_alike(r) ==
    {Reader([k \in 1..n |-> LineOf(r, k)], EndCalls) : n \in 0..MaxEmit}
    \cup {Reader(<<FailedToStart>>, EndCalls)}

(* Lines 656-669 and 671-679: the process starts and prints some lines, or *)
(* Popen raises and the message is the only line.                          *)
Readers(r) ==
    {Reader([k \in 1..n |-> LineOf(r, k)], EndCalls) : n \in 0..MaxEmit}
    \cup {Reader(<<FailedToStart>>, <<"_finish_timer">>)}

Callback(kind, r, line) == [kind |-> kind, run |-> r, text |-> line]

(* self.after(0, callback) with the newest callback run first. *)
after_first(q, cb) == <<cb>> \o q

(* self.after(0, callback) *)
after(q, cb) == Append(q, cb)

RunInit ==
    /\ pc = "run"
    /\ app = Built("run", <<ValueRow("item", <<"a">>)>>, <<>>, <<>>, <<>>, <<0, 0, 0>>)
    /\ disk = MissingFile
    /\ hist = NoHist
    /\ parts = <<>>
    /\ text = <<>>
    /\ routes = <<>>
    /\ procs = <<>>
    /\ events = <<>>

(* _run, on the main loop: lines 650-653 and 681. *)
RunClick ==
    \E p \in Readers(Len(procs) + 1) :
        /\ Len(procs) + 1 \in RunIds
        /\ app' = AppOf(clear_routes(start_timer([World EXCEPT !.output = <<>>,
                                                              !.running = @ + 1])))
        /\ procs' = Append(procs, p)
        /\ UNCHANGED <<pc, disk, hist, parts, text, routes, events>>

(* reader, lines 667 and 672-673: the thread passes a line on to           *)
(* _append_output, which schedules its append.                             *)
ReaderLine ==
    \E r \in 1..Len(procs) :
        /\ procs[r].todo # <<>>
        /\ procs' = [procs EXCEPT ![r].todo = Tail(@),
                                  ![r].read = Append(@, Head(procs[r].todo))]
        /\ events' = after(events, Callback("_append", r, Head(procs[r].todo)))
        /\ UNCHANGED <<pc, app, disk, hist, parts, text, routes>>

(* reader, lines 668 and 674-679: the calls of after at the end. *)
ReaderEnd ==
    \E r \in 1..Len(procs) :
        /\ procs[r].todo = <<>>
        /\ procs[r].calls # <<>>
        /\ procs' = [procs EXCEPT ![r].calls = Tail(@)]
        /\ events' = after(events, Callback(Head(procs[r].calls), r, <<>>))
        /\ app' = [app EXCEPT !.running = IF Len(procs[r].calls) = 1 THEN @ - 1 ELSE @]
        /\ UNCHANGED <<pc, disk, hist, parts, text, routes>>

(* What a callback does to the object and the file. *)
RunCallback(w, cb) ==
    IF cb.kind = "_append" THEN [w EXCEPT !.output = @ \o cb.text]
    ELSE IF cb.kind = "_finish_timer" THEN finish_timer(w)
    ELSE Do(cb.kind, w, <<>>)

Appended(ps, cb) ==
    IF cb.kind = "_append" THEN [ps EXCEPT ![cb.run].appended = Append(@, cb.text)]
    ELSE [ps EXCEPT ![cb.run].done = @ \cup {cb.kind}]

(* The main loop runs the callback that is due. *)
MainLoop ==
    /\ events # <<>>
    /\ events' = Tail(events)
    /\ app' = AppOf(RunCallback(World, Head(events)))
    /\ disk' = RunCallback(World, Head(events)).disk
    /\ procs' = Appended(procs, Head(events))
    /\ UNCHANGED <<pc, hist, parts, text, routes>>

RunNext == RunClick \/ ReaderLine \/ ReaderEnd \/ MainLoop

RunSpec == RunInit /\ [][RunNext]_vars

-----------------------------------------------------------------------------
(* Properties of the run.                                                  *)

(* The lines of a run whose appends are scheduled and not yet run. *)
Waiting(r) ==
    [i \in 1..Len(SelectSeq(events, LAMBDA cb : cb.kind = "_append" /\ cb.run = r)) |->
        SelectSeq(events, LAMBDA cb : cb.kind = "_append" /\ cb.run = r)[i].text]

(* C15: for every run, the lines appended so far followed by the lines     *)
(* whose append is scheduled are the lines the reader has passed on, in    *)
(* the order the process printed them: none dropped, none twice, none out  *)
(* of order; and the lines passed on are the lines the process printed.    *)
C15_LinesInOrder ==
    \A r \in 1..Len(procs) :
        /\ procs[r].appended \o Waiting(r) = procs[r].read
        /\ \A k \in 1..Len(procs[r].read) :
              procs[r].read[k] \in {LineOf(r, k), FailedToStart}

C15_Witness ==
    /\ Len(procs) = 2
    /\ procs[1].appended = <<LineOf(1, 1), LineOf(1, 2)>>
    /\ procs[2].appended = <<LineOf(2, 1), LineOf(2, 2)>>
    /\ events = <<>>
    /\ app.output = LineOf(2, 1) \o LineOf(1, 2) \o LineOf(2, 2)

-----------------------------------------------------------------------------
(* Properties of activation, reset and the selector.                       *)

(* The step made another command the active one. *)
Switched ==
    /\ IsSome(LabelOf(app'))
    /\ \/ pc = "activate"
       \/ (pc = "ready" /\ IsSome(LabelOf(app)) /\ LabelOf(app') # LabelOf(app))

(* C16: when a step other than a reset activates a command, at start-up or *)
(* by a switch from another command, and the file holds a string output    *)
(* for that command, the held output after the step is that string.        *)
C16_OutputRestored ==
    [][(Switched /\ ~hist'.reset
          /\ IsSome(EntryOf(disk, LabelOf(app')[1]).output))
       => app'.output = EntryOf(disk, LabelOf(app')[1]).output[1]]_vars

(* The selector and the editor as _on_command_change builds them for a     *)
(* command without saved state: the required specs selected, each with the *)
(* row _ensure_selected_row gives it.                                      *)
AtDefaults(a) ==
    /\ \A k \in DOMAIN a.widget_vars : a.widget_vars[k] = is_required(a.current_meta, k)
    /\ \A i \in 1..Len(a.selected) :
          /\ is_required(a.current_meta, a.selected[i].key)
          /\ a.selected[i] = NewRow(SpecByKey(a.current_meta, a.selected[i].key),
                                    a.selected[i].key)

GlobalsCleared(a) ==
    /\ a.cwd_var = <<>> /\ a.db_var = <<>> /\ a.linkly_var = <<>>
    /\ a.detail_var = 0 /\ a.quiet_var = 0 /\ a.debug_var = 0

(* C17: after a reset every global is empty or 0, the first command of the *)
(* sorted order is active with its required specs selected at their        *)
(* defaults and nothing else, and the file holds no entry of any other     *)
(* command.                                                                *)
C17_ResetClears ==
    hist.reset =>
        /\ GlobalsCleared(app)
        /\ app.current_meta = all_cmds[1]
        /\ app.current_cmd_label = Some(all_cmds[1])
        /\ AtDefaults(app)
        /\ \A y \in Labels \ {all_cmds[1]} : EntryOf(disk, y) = EmptyCmdState

(* The keys of the positionals of the active command. *)
Required(a) ==
    IF a.current_meta = NoMeta THEN {}
    ELSE {key(cmd_metas[a.current_meta].arguments[i]) :
            i \in 1..Len(cmd_metas[a.current_meta].arguments)}

(* C18: in every state with an active command every positional of the     *)
(* command is selected, whatever was toggled, excluded or restored.        *)
C18_PositionalsSelected ==
    \A k \in Required(app) : k \in DOMAIN app.widget_vars /\ app.widget_vars[k]

(* The restore from a document that records the positional unselected. *)
C18_Witness ==
    /\ pc = "apply"
    /\ app.current_meta = "run"
    /\ RecOf(app.prefs, "run", "item") # None
    /\ RecOf(app.prefs, "run", "item")[1].selected = Some(FALSE)
    /\ app.widget_vars["item"]
    /\ IsSome(RowOf(app, "item"))

(* The keys of the specs that have an editor row. *)
RowKeys(a) == {a.selected[i].key : i \in 1..Len(a.selected)}

(* C19: between the operations, the specs that have an editor row (a       *)
(* current value) are the specs whose selected flag is true.               *)
C19_RowsAreSelected ==
    RowKeys(app) = {k \in DOMAIN app.widget_vars : app.widget_vars[k]}

(* After a toggle that excluded the other member of the group. *)
C19_Witness ==
    /\ pc = "ready"
    /\ app.current_meta = "run"
    /\ hist.excl = {<<"-d", "avoid">>}
    /\ RowKeys(app) = {"item", "avoid"}
    /\ ~app.widget_vars["-d"]

(* The row a spec is to start with: a flag checked, a value with the       *)
(* default of the spec if it has one that is not False, else empty.        *)
Seed(a, k) ==
    LET spec == SpecByKey(a.current_meta, k)
    IN  IF spec.action = Some("store_true") THEN [key |-> k, flag |-> Some(TRUE), value |-> None]
        ELSE IF IsSome(spec.default) /\ spec.default[1] # PyFalse
        THEN [key |-> k, flag |-> None, value |-> spec.default]
        ELSE [key |-> k, flag |-> None, value |-> Some(<<>>)]

(* C20: a toggle that selects a spec gives it the seeded row, whatever its *)
(* row held when it was last selected, and a toggle that deselects a spec  *)
(* removes its row.                                                        *)
C20_SeededOnSelect ==
    [][\A k \in DOMAIN app.widget_vars :
          ToggleOf(k) =>
              IF app.widget_vars[k] THEN RowOf(app', k) = None
              ELSE RowOf(app', k) = Some(Seed(app, k))]_vars

(* The multi spec holds its default after the step that selected it and    *)
(* excluded the flag of its group; the valued spec, whose default is       *)
(* False, is selected and empty.                                           *)
C20_Witness ==
    /\ pc = "ready"
    /\ app.current_meta = "run"
    /\ hist.excl = {<<"-d", "avoid">>}
    /\ RowOf(app, "avoid") = Some(ValueRow("avoid", <<"5">>))
    /\ RowOf(app, "starting") = Some(ValueRow("starting", <<>>))

-----------------------------------------------------------------------------
(* Further properties of the argument builder.                             *)

(* The flag a switch of 'run' is written with. *)
FlagName(k) ==
    CASE k = "-d" -> "--direct"
      [] k = "avoid" -> "--avoid"
      [] k = "starting" -> "--from"
      [] OTHER -> ""

(* What a selected row is to contribute: a flag its name when it is true;  *)
(* a value nothing when it is blank, else the trimmed value, after the     *)
(* flag unless the spec is the positional; the append switch a pair for    *)
(* each non-empty piece when its value has a comma.                        *)
Expected(row) ==
    IF IsSome(row.flag)
    THEN IF row.flag[1] THEN <<W(FlagName(row.key))>> ELSE <<>>
    ELSE IF Trimmed(row.value[1]) = <<>> THEN <<>>
    ELSE IF row.key = "item" THEN <<V(Trimmed(row.value[1]))>>
    ELSE IF row.key = "avoid" /\ HasComma(Trimmed(row.value[1]))
    THEN Flatten([n \in 1..Len(NonEmptyFields(Trimmed(row.value[1]))) |->
                    <<W("--avoid"), V(NonEmptyFields(Trimmed(row.value[1]))[n])>>])
    ELSE <<W(FlagName(row.key)), V(Trimmed(row.value[1]))>>

(* The value of the row has nothing but blanks and, for the append switch, *)
(* commas.                                                                 *)
Blank(row) ==
    /\ IsSome(row.value)
    /\ \/ Trimmed(row.value[1]) = <<>>
       \/ (row.key = "avoid" /\ NonEmptyFields(Trimmed(row.value[1])) = <<>>)

(* The vector between the head and the global part. *)
Middle == SubSeq(parts, Len(HeadTokens(Meta)) + 1, Len(parts) - Len(GlobalPart))

(* C21: between the head and the global part the vector holds what the     *)
(* selected rows are to contribute and nothing else: the flag of a flag    *)
(* row that is true, the flag and the trimmed value of a valued switch     *)
(* whose trimmed value is not empty; a row whose value is blank, or of     *)
(* commas and blanks only, contributes nothing, not even its flag.         *)
C21_TokensOfSpecs ==
    HasBuilt =>
        /\ Middle = Flatten([i \in 1..Len(app.selected) |-> Expected(app.selected[i])])
        /\ \A i \in 1..Len(app.selected) :
              /\ Blank(app.selected[i]) =>
                    FlagAt(parts, FlagName(app.selected[i].key)) = {}
              /\ (IsSome(app.selected[i].flag) /\ ~app.selected[i].flag[1]) =>
                    FlagAt(parts, FlagName(app.selected[i].key)) = {}

C21_Witness ==
    /\ HasBuilt
    /\ app.selected = <<ValueRow("item", <<>>), ValueRow("avoid", <<",">>),
                        ValueRow("starting", <<"a", ",", "b">>)>>
    /\ Middle = <<W("--from"), V(<<"a", ",", "b">>)>>

-----------------------------------------------------------------------------
(* The order of the tokens in the session.                                 *)

(* The places of the tokens of a spec in a vector: the flag of a switch    *)
(* and the text after it; of the positional the texts no flag precedes.    *)
TakesText == {W("--avoid"), W("--from"), W("-C"), W("--db"), W("-L")}
Places(ps, k) ==
    IF k = "item"
    THEN {i \in 2..Len(ps) : ps[i].k = "text" /\ ps[i - 1] \notin TakesText}
    ELSE FlagAt(ps, FlagName(k))
         \cup {i + 1 : i \in {j \in FlagAt(ps, FlagName(k)) : W(FlagName(k)) \in TakesText}}

Precedes(ps, j, k) == \A x \in Places(ps, j), y \in Places(ps, k) : x < y

Chosen(a) == {k \in DOMAIN a.widget_vars : a.widget_vars[k]}

(* C22: a toggle that selects a spec puts its tokens after the tokens of   *)
(* every spec that stays selected, whether or not the spec was selected    *)
(* before, and no toggle changes the order of the tokens of two specs that *)
(* stay selected.                                                          *)
C22_InsertionOrder ==
    [][\A k \in DOMAIN app.widget_vars :
          ToggleOf(k) =>
              /\ app'.widget_vars[k] =>
                    \A j \in Chosen(app') \ {k} :
                        Precedes(build_args(app'), j, k)
              /\ \A i, j \in (Chosen(app) \cap Chosen(app')) \ {k} :
                    Precedes(build_args(app), i, j) => Precedes(build_args(app'), i, j)]_vars

(* The tokens of --avoid before those of --from, against the order of the  *)
(* selector: --avoid was selected first.                                   *)
C22_Witness ==
    /\ pc = "ready"
    /\ app.current_meta = "run"
    /\ Places(build_args(app), "avoid") # {}
    /\ Places(build_args(app), "starting") # {}
    /\ Precedes(build_args(app), "avoid", "starting")

-----------------------------------------------------------------------------
(* The file and the object.                                                *)

(* The record of the file says of spec k what the widgets say. *)
RecordMatches(rec, a, k) ==
    /\ rec # None
    /\ rec[1].selected = Some(a.widget_vars[k])
    /\ IF SpecByKey(a.current_meta, k).action = Some("store_true")
       THEN rec[1].flag = Some(IsSome(RowOf(a, k)) /\ RowOf(a, k)[1].flag[1])
       ELSE rec[1].value = Some(IF IsSome(RowOf(a, k)) THEN RowOf(a, k)[1].value[1]
                                ELSE <<>>)

NoOutput(o) == o = None \/ \A i \in 1..Len(o[1]) : o[1][i] = "\n"

(* C24: a switch to a command leaves the output the file holds for that    *)
(* command as it is, or leaves it without a line: it does not store under  *)
(* the command the output on display, which a run of the command left has  *)
(* produced.                                                               *)
C24_OutputOfOwnRun ==
    [][(Switched /\ pc = "ready" /\ ~hist'.reset) =>
          \/ EntryOf(disk', LabelOf(app')[1]).output = EntryOf(disk, LabelOf(app')[1]).output
          \/ NoOutput(EntryOf(disk', LabelOf(app')[1]).output)]_vars

-----------------------------------------------------------------------------
(* Further properties of the run.                                          *)

(* The launch of run r failed. *)
Failed(r) == FailedToStart \in {(procs[r].read \o procs[r].todo)[i] :
                                    i \in 1..Len(procs[r].read \o procs[r].todo)}

(* The callbacks of run r that are scheduled and not yet run. *)
Pending(r) == SelectSeq(events, LAMBDA cb : cb.run = r)
PendingKinds(r) == {Pending(r)[i].kind : i \in 1..Len(Pending(r))}

(* The reader of run r has ended and the main loop has run every callback  *)
(* it scheduled.                                                           *)
Over(r) == procs[r].todo = <<>> /\ procs[r].calls = <<>> /\ Pending(r) = <<>>

(* The selection state, the globals and the active command. *)
Settings(a) ==
    [meta |-> a.current_meta, cmd |-> a.cmd_var, checked |-> a.widget_vars,
     rows |-> a.selected, cwd |-> a.cwd_var, db |-> a.db_var,
     linkly |-> a.linkly_var,
     counters |-> <<a.detail_var, a.quiet_var, a.debug_var>>]

(* C25: a run whose launch failed has the failure message as its one line, *)
(* no route extraction and no save are scheduled or run for it, once it is *)
(* over _finish_timer has run for it and the message has been appended     *)
(* once, and no step of it changes the selection state, the globals or the *)
(* active command.                                                         *)
C25_LaunchFailure ==
    [][\A r \in 1..Len(procs') :
          Failed(r)' =>
              /\ procs'[r].read \o procs'[r].todo = <<FailedToStart>>
              /\ PendingKinds(r)' \subseteq {"_append", "_finish_timer"}
              /\ procs'[r].done \subseteq {"_finish_timer"}
              /\ Over(r)' => /\ procs'[r].done = {"_finish_timer"}
                             /\ procs'[r].appended = <<FailedToStart>>
              /\ Settings(app') = Settings(app)]_vars

C25_Witness ==
    /\ Len(procs) = 1
    /\ Failed(1)
    /\ Over(1)
    /\ app.output = FailedToStart
    /\ app.run_status = "Finished"
    /\ app.route_cards = <<>>

(* C26: when the run started last is over, the held output consists of the *)
(* lines of that run and of nothing else.                                  *)
C26_OnlyOwnLines ==
    \A r \in 1..Len(procs) :
        (r = Len(procs) /\ Over(r)) => app.output = Flatten(procs[r].appended)

-----------------------------------------------------------------------------
(* Further properties of the route parser.                                 *)

(* The lines that open a record: the lines that match the start pattern    *)
(* and, when it is none of them, the first line that is not blank.         *)
StartsAt(ls) == {n \in 1..Len(ls) : start_pat_match(ls[n])}
NonBlankAt(ls) == {n \in 1..Len(ls) : Trimmed(ls[n]) # <<>>}
HeadsAt(ls) ==
    StartsAt(ls)
    \cup {n \in NonBlankAt(ls) : \A m \in NonBlankAt(ls) : n <= m}
NthHead(ls, i) ==
    CHOOSE n \in HeadsAt(ls) : Cardinality({m \in HeadsAt(ls) : m < n}) = i - 1

-----------------------------------------------------------------------------
(* The end of a run.                                                       *)

(* The callback the main loop is about to run extracts the routes or saves *)
(* the output for run r.                                                   *)
EndStep(r) ==
    /\ events # <<>>
    /\ events' = Tail(events)
    /\ Head(events).run = r
    /\ Head(events).kind \in {"_process_routes_from_output", "_save_prefs"}

(* The line is part of the text. *)
HasLine(out, ln) ==
    \E i \in 1..(Len(out) - Len(ln) + 1) : SubSeq(out, i, i + Len(ln) - 1) = ln

(* C28: when the main loop extracts the routes or saves the output for a   *)
(* run, the process has printed its last line, every line of the run has   *)
(* been appended, and the held output has every line of the run.           *)
C28_CompleteOutput ==
    [][\A r \in 1..Len(procs) :
          EndStep(r) =>
              /\ procs[r].todo = <<>>
              /\ procs[r].appended = procs[r].read
              /\ \A k \in 1..Len(procs[r].read) : HasLine(app.output, procs[r].read[k])]_vars

-----------------------------------------------------------------------------
(* The argument vector across a restart.                                   *)

(* C29: once a session that follows a close is ready, the vector built     *)
(* from the restored state is the vector built at the close.               *)
C29_VectorRoundTrip ==
    (pc = "ready" /\ IsSome(hist.vector)) => build_args(app) = hist.vector[1]

-----------------------------------------------------------------------------
(* Completion of the runs.                                                 *)

(* The reader threads and the main loop keep running: a thread that can    *)
(* pass a line on or make a call of after does so, and the main loop runs  *)
(* the callbacks that are due.  The processes of the model terminate.      *)
(* MainLoop is enabled exactly when a callback is scheduled, so its weak    *)
(* fairness is written with that condition.                                *)
RunLive ==
    RunSpec /\ WF_vars(ReaderLine) /\ WF_vars(ReaderEnd)
            /\ (<>[](events # <<>>) => []<><<MainLoop>>_vars)

(* Every run that is started has _finish_timer run for it in the end. *)
RunsComplete ==
    \A r \in RunIds :
        (Len(procs) >= r) ~> (Len(procs) >= r /\ "_finish_timer" \in procs[r].done)

(* _finish_timer has not yet run for run r. *)
Active(r) == "_finish_timer" \notin procs[r].done

(* C30: as long as _finish_timer has not run for some run that was         *)
(* started, the status is "Running" and the timer is ticking.              *)
C30_RunningWhileActive ==
    (\E r \in 1..Len(procs) : Active(r)) =>
        (app.run_status = "Running" /\ app.timer_running)
====
